---- MODULE Spec2Model ----
(***************************************************************************)
(* Model of src/services/tripPlannerService.js (class TripPlannerService). *)
(*                                                                         *)
(* Numbers.  JavaScript numbers are modelled by exact rationals:           *)
(*   - money after Math.round is an integer;                               *)
(*   - multipliers are kept in tenths (1.3 -> 13, 0.9 -> 9);               *)
(*   - Math.random() returns k/RandDen, k in 0..RandDen-1 (the value 1 is  *)
(*     never returned);                                                    *)
(*   - flight durations are kept in units of 1/(4*JitterDen) hour, the     *)
(*     jitter draw being j/JitterDen.                                      *)
(* JavaScript values that are not numbers (undefined, functions, objects,  *)
(* strings, NaN) are the tagged records of JsVal below.                    *)
(* Arguments that are not strings are the marker strings "#undefined",     *)
(* "#null" and "#nokey" (an object that cannot be converted to a property  *)
(* key, such as Object.create(null)).                                      *)
(***************************************************************************)
EXTENDS Integers, Sequences, FiniteSets, TLC

VARIABLES pc, op, args, timer, elapsed, locals, inner, ret

vars == <<pc, op, args, timer, elapsed, locals, inner, ret>>

(***************************************************************************)
(* Bounds of the model.                                                    *)
(***************************************************************************)
RandDen == 4

JitterDen == 64

MaxDuration == 10

MaxTravelers == 6

Rand == 0 .. (RandDen - 1)

(* Representative jitter draws j/JitterDen: both ends of the range, the    *)
(* midpoint (no jitter) and its neighbour just below.                      *)
JitterDraws ==
  {0, JitterDen \div 4, (JitterDen \div 2) - 1, JitterDen \div 2,
   (3 * JitterDen) \div 4, JitterDen - 1}

(***************************************************************************)
(* JavaScript values.                                                      *)
(***************************************************************************)
Num(n) == [t |-> "num", v |-> n]

Undef == [t |-> "undef", v |-> 0]

NaN == [t |-> "nan", v |-> 0]

Fn == [t |-> "fn", v |-> 0]

Obj == [t |-> "obj", v |-> 0]

Str == [t |-> "str", v |-> 0]

Null == [t |-> "null", v |-> 0]

(* ToBoolean, as applied by || : 0, NaN, undefined and null are falsy;     *)
(* functions, objects and non-empty strings are truthy.                    *)
Truthy(x) ==
  \/ x.t \in {"fn", "obj", "str"}
  \/ x.t = "num" /\ x.v # 0

(* a || b *)
Or(a, b) == IF Truthy(a) THEN a ELSE b

(* Property names every object literal inherits from Object.prototype.     *)
ObjectProtoKeys ==
  {"constructor", "__proto__", "toString", "valueOf", "hasOwnProperty",
   "isPrototypeOf", "propertyIsEnumerable", "toLocaleString"}

(* Read of an inherited property of an object literal: the methods are     *)
(* functions, __proto__ is the prototype object.                          *)
ProtoGet(key) ==
  IF key = "__proto__" THEN Obj
  ELSE IF key \in ObjectProtoKeys THEN Fn
  ELSE Undef

(* table[key] for an object literal of numbers: an own property, else an   *)
(* inherited one, else undefined.                                          *)
Get(table, key) ==
  IF key \in DOMAIN table THEN Num(table[key]) ELSE ProtoGet(key)

(* Properties of the function Object, which is what row 'constructor' of   *)
(* an object literal is: Object.name is 'Object', Object.length is 1,      *)
(* Object.prototype is an object, Object.constructor is Function.          *)
ObjectFnGet(key) ==
  CASE key = "name" -> Str
    [] key = "length" -> Num(1)
    [] key \in {"prototype", "__proto__"} -> Obj
    [] key \in ObjectProtoKeys \ {"__proto__"} -> Fn
    [] OTHER -> Undef

(* Properties of Object.prototype itself (row '__proto__'); its own        *)
(* __proto__ is null.                                                      *)
ObjectProtoGet(key) ==
  IF key = "__proto__" THEN Null
  ELSE IF key \in ObjectProtoKeys THEN Fn
  ELSE Undef

(* Math.round of the positive rational num/den: floor(x + 1/2).            *)
Round(num, den) == ((2 * num) + den) \div (2 * den)

(* Math.round(x * f) where x is a JavaScript value and f = num/den a       *)
(* number: anything that is not a number converts to NaN.                  *)
RoundTimes(x, num, den) ==
  IF x.t = "num" THEN Num(Round(x.v * num, den)) ELSE NaN

(***************************************************************************)
(* Strings.  String.prototype.trim and toLowerCase on the strings the      *)
(* model uses; every other string of the model is already trimmed and in   *)
(* lower case, so both leave it alone.                                     *)
(***************************************************************************)
Trim(s) ==
  CASE s = " Mumbai " -> "Mumbai"
    [] s = " mumbai " -> "mumbai"
    [] OTHER -> s

LowerOf ==
  ("Mumbai" :> "mumbai") @@ ("Delhi" :> "delhi") @@ ("Kolkata" :> "kolkata")
  @@ ("Goa" :> "goa") @@ ("Bangalore" :> "bangalore")
  @@ ("Chennai" :> "chennai") @@ ("Hyderabad" :> "hyderabad")
  @@ ("Ahmedabad" :> "ahmedabad") @@ ("Jaipur" :> "jaipur")
  @@ ("Pune" :> "pune") @@ ("Imphal" :> "imphal")
  @@ ("Guwahati" :> "guwahati") @@ ("Shillong" :> "shillong")
  @@ ("Agartala" :> "agartala") @@ ("Aizawl" :> "aizawl")
  @@ ("Dibrugarh" :> "dibrugarh") @@ ("Silchar" :> "silchar")
  @@ ("Paris" :> "paris") @@ ("London" :> "london") @@ ("Tokyo" :> "tokyo")
  @@ ("Dubai" :> "dubai") @@ ("New York" :> "new york")
  @@ (" Mumbai " :> " mumbai ")

ToLowerCase(s) == IF s \in DOMAIN LowerOf THEN LowerOf[s] ELSE s

(* Arguments that are not strings: calling a string method on them raises  *)
(* a TypeError.                                                            *)
NotAString == {"#undefined", "#null", "#nokey"}

(***************************************************************************)
(* mockFlightAPI: the route table and the Indian cities.                   *)
(***************************************************************************)
routes ==
  ("new york" :>
     (("paris" :> 450) @@ ("tokyo" :> 800) @@ ("london" :> 400)
      @@ ("dubai" :> 600) @@ ("mumbai" :> 900) @@ ("delhi" :> 850)))
  @@ ("london" :>
     (("paris" :> 150) @@ ("tokyo" :> 700) @@ ("new york" :> 400)
      @@ ("dubai" :> 350) @@ ("mumbai" :> 500) @@ ("delhi" :> 480)))
  @@ ("mumbai" :>
     (("dubai" :> 200) @@ ("london" :> 500) @@ ("paris" :> 550)
      @@ ("tokyo" :> 400) @@ ("new york" :> 900) @@ ("delhi" :> 80)
      @@ ("kolkata" :> 120) @@ ("goa" :> 150) @@ ("bangalore" :> 100)
      @@ ("chennai" :> 110) @@ ("hyderabad" :> 90)))
  @@ ("delhi" :>
     (("dubai" :> 180) @@ ("london" :> 480) @@ ("paris" :> 520)
      @@ ("tokyo" :> 380) @@ ("new york" :> 850) @@ ("mumbai" :> 80)
      @@ ("kolkata" :> 100) @@ ("goa" :> 130) @@ ("bangalore" :> 120)
      @@ ("chennai" :> 130) @@ ("hyderabad" :> 70)))
  @@ ("kolkata" :>
     (("mumbai" :> 120) @@ ("delhi" :> 100) @@ ("goa" :> 180)
      @@ ("bangalore" :> 140) @@ ("chennai" :> 150) @@ ("hyderabad" :> 120)
      @@ ("dubai" :> 250) @@ ("singapore" :> 300) @@ ("imphal" :> 100)))
  @@ ("goa" :>
     (("mumbai" :> 150) @@ ("delhi" :> 130) @@ ("kolkata" :> 180)
      @@ ("bangalore" :> 160) @@ ("chennai" :> 170) @@ ("hyderabad" :> 140)))
  @@ ("bangalore" :>
     (("mumbai" :> 100) @@ ("delhi" :> 120) @@ ("kolkata" :> 140)
      @@ ("goa" :> 160) @@ ("chennai" :> 50) @@ ("hyderabad" :> 60)
      @@ ("dubai" :> 220)))
  @@ ("chennai" :>
     (("mumbai" :> 110) @@ ("delhi" :> 130) @@ ("kolkata" :> 150)
      @@ ("goa" :> 170) @@ ("bangalore" :> 50) @@ ("hyderabad" :> 80)))
  @@ ("hyderabad" :>
     (("mumbai" :> 90) @@ ("delhi" :> 70) @@ ("kolkata" :> 120)
      @@ ("goa" :> 140) @@ ("bangalore" :> 60) @@ ("chennai" :> 80)))
  @@ ("paris" :>
     (("london" :> 150) @@ ("new york" :> 450) @@ ("tokyo" :> 650)
      @@ ("dubai" :> 400)))
  @@ ("tokyo" :>
     (("new york" :> 800) @@ ("london" :> 700) @@ ("paris" :> 650)
      @@ ("dubai" :> 550)))
  @@ ("dubai" :>
     (("london" :> 350) @@ ("paris" :> 400) @@ ("new york" :> 600)
      @@ ("tokyo" :> 550) @@ ("mumbai" :> 200) @@ ("delhi" :> 180)))

(* routes[lowerOrigin]?.[lowerDestination] *)
RouteLookup(lowerOrigin, lowerDestination) ==
  IF lowerOrigin \in DOMAIN routes
    THEN Get(routes[lowerOrigin], lowerDestination)
  ELSE IF lowerOrigin = "__proto__" THEN ObjectProtoGet(lowerDestination)
  ELSE IF lowerOrigin \in ObjectProtoKeys THEN ObjectFnGet(lowerDestination)
  ELSE Undef

(* const basePrice = routes[lowerOrigin]?.[lowerDestination] || 500 *)
basePrice(lowerOrigin, lowerDestination) ==
  Or(RouteLookup(lowerOrigin, lowerDestination), Num(500))

indianCities ==
  {"Mumbai", "Delhi", "Kolkata", "Goa", "Bangalore", "Chennai", "Hyderabad",
   "Ahmedabad", "Jaipur", "Pune", "Imphal", "Guwahati", "Shillong",
   "Agartala", "Aizawl", "Dibrugarh", "Silchar"}

isDomestic(lowerOrigin, lowerDestination) ==
  /\ \E city \in indianCities : ToLowerCase(city) = lowerOrigin
  /\ \E city \in indianCities : ToLowerCase(city) = lowerDestination

(* Months as Date.prototype.getMonth returns them; an unparsable date      *)
(* gives NaN, modelled as the month -1, which is in no list.               *)
InvalidMonth == 0 - 1

Months == 0 .. 11

peakMonths == {5, 6, 7, 8, 11}

(* In tenths: 1.3 or 0.9. *)
getSeasonalMultiplier(month) == IF month \in peakMonths THEN 13 ELSE 9

(***************************************************************************)
(* getFlightDetails.  Table values are hours in tenths (2.5 -> 25).        *)
(***************************************************************************)
domesticDurations ==
  ("mumbai-delhi" :> 25) @@ ("delhi-mumbai" :> 25)
  @@ ("mumbai-kolkata" :> 30) @@ ("kolkata-mumbai" :> 30)
  @@ ("delhi-kolkata" :> 20) @@ ("kolkata-delhi" :> 20)
  @@ ("mumbai-goa" :> 15) @@ ("goa-mumbai" :> 15)
  @@ ("delhi-goa" :> 25) @@ ("goa-delhi" :> 25)
  @@ ("kolkata-goa" :> 25) @@ ("goa-kolkata" :> 25)
  @@ ("kolkata-imphal" :> 15) @@ ("imphal-kolkata" :> 15)
  @@ ("mumbai-bangalore" :> 20) @@ ("bangalore-mumbai" :> 20)
  @@ ("delhi-bangalore" :> 25) @@ ("bangalore-delhi" :> 25)
  @@ ("mumbai-chennai" :> 25) @@ ("chennai-mumbai" :> 25)
  @@ ("delhi-chennai" :> 25) @@ ("chennai-delhi" :> 25)
  @@ ("bangalore-chennai" :> 10) @@ ("chennai-bangalore" :> 10)
  @@ ("mumbai-hyderabad" :> 15) @@ ("hyderabad-mumbai" :> 15)
  @@ ("delhi-hyderabad" :> 20) @@ ("hyderabad-delhi" :> 20)
  @@ ("bangalore-hyderabad" :> 10) @@ ("hyderabad-bangalore" :> 10)
  @@ ("chennai-hyderabad" :> 15) @@ ("hyderabad-chennai" :> 15)

internationalDurations ==
  ("mumbai-dubai" :> 35) @@ ("dubai-mumbai" :> 35)
  @@ ("delhi-dubai" :> 35) @@ ("dubai-delhi" :> 35)
  @@ ("mumbai-london" :> 90) @@ ("london-mumbai" :> 90)
  @@ ("delhi-london" :> 85) @@ ("london-delhi" :> 85)
  @@ ("mumbai-paris" :> 95) @@ ("paris-mumbai" :> 95)
  @@ ("delhi-paris" :> 90) @@ ("paris-delhi" :> 90)
  @@ ("mumbai-new york" :> 150) @@ ("new york-mumbai" :> 150)
  @@ ("delhi-new york" :> 145) @@ ("new york-delhi" :> 145)
  @@ ("london-new york" :> 80) @@ ("new york-london" :> 80)
  @@ ("paris-new york" :> 85) @@ ("new york-paris" :> 85)
  @@ ("london-paris" :> 15) @@ ("paris-london" :> 15)
  @@ ("dubai-london" :> 70) @@ ("london-dubai" :> 70)
  @@ ("dubai-paris" :> 75) @@ ("paris-dubai" :> 75)

(* Duration units in one hour, and hours in tenths as duration units.      *)
HourUnits == 4 * JitterDen

TenthsToUnits(tenths) == (tenths * HourUnits) \div 10

(* `${origin.toLowerCase()}-${destination.toLowerCase()}` *)
routeKey(origin, destination) ==
  ToLowerCase(origin) \o "-" \o ToLowerCase(destination)

reverseRouteKey(origin, destination) ==
  ToLowerCase(destination) \o "-" \o ToLowerCase(origin)

(* duration = table[routeKey] || table[reverseRouteKey] || default, in     *)
(* tenths of an hour.                                                      *)
baseDuration(origin, destination, domestic) ==
  LET table == IF domestic THEN domesticDurations ELSE internationalDurations
      dflt == IF domestic THEN 20 ELSE 80
  IN Or(Or(Get(table, routeKey(origin, destination)),
           Get(table, reverseRouteKey(origin, destination))),
        Num(dflt))

(* The variation of the comment above it in the source, "±30 minutes":     *)
(* (Math.random() - 0.5) * 1.0.                                            *)
durationVariationHalfHour(j) == 2 * ((2 * j) - JitterDen)

(* const variation = (Math.random() - 0.5) * 0.5, in duration units, for   *)
(* the draw j/JitterDen.                                                   *)
durationVariation(j) == (2 * j) - JitterDen

(* Math.random() > tenths/10 for the draw k/RandDen. *)
RandomGt(k, tenths) == 10 * k > tenths * RandDen

(* stopsFor with the long-haul branch written like the medium-haul one,    *)
(* Math.random() > 0.3 ? 1 : 0.                                            *)
stopsForLongHaulDirect(domestic, duration, k) ==
  IF domestic
    THEN (IF RandomGt(k, 8) THEN 1 ELSE 0)
  ELSE IF duration < 5 * HourUnits
    THEN (IF RandomGt(k, 7) THEN 0 ELSE 1)
  ELSE IF duration < 10 * HourUnits
    THEN (IF RandomGt(k, 5) THEN 1 ELSE 0)
  ELSE (IF RandomGt(k, 3) THEN 1 ELSE 0)

(* The stop-count policy; duration in duration units. *)
stopsFor(domestic, duration, k) ==
  IF domestic
    THEN (IF RandomGt(k, 8) THEN 1 ELSE 0)
  ELSE IF duration < 5 * HourUnits
    THEN (IF RandomGt(k, 7) THEN 0 ELSE 1)
  ELSE IF duration < 10 * HourUnits
    THEN (IF RandomGt(k, 5) THEN 1 ELSE 0)
  ELSE (IF RandomGt(k, 3) THEN 1 ELSE 2)

(* The duration after the jitter, before formatting, in duration units.    *)
resolvedDuration(origin, destination, domestic, j) ==
  TenthsToUnits(baseDuration(origin, destination, domestic).v)
    + durationVariation(j)

(* getFlightDetails for the jitter draw j and the stops draw k: the two    *)
(* numbers of the string `${hours}h ${minutes}m` and the stop count.       *)
getFlightDetails(origin, destination, domestic, j, k) ==
  LET duration == resolvedDuration(origin, destination, domestic, j)
      hours == duration \div HourUnits
      minutes == Round((duration - (hours * HourUnits)) * 60, HourUnits)
  IN [hours |-> hours, minutes |-> minutes,
      stops |-> stopsFor(domestic, duration, k)]

(***************************************************************************)
(* How a call ends: a returned value or a raised error.                    *)
(***************************************************************************)
Return(value) == [kind |-> "return", value |-> value]

Throw(message) == [kind |-> "throw", value |-> message]

None == [kind |-> "none", value |-> 0]

(***************************************************************************)
(* mockFlightAPI after its delay, for the price draw r, the jitter draw j  *)
(* and the stops draw k.  The draws behind airline, availability,          *)
(* bookingClass and refundable choose among constants and are left out.    *)
(***************************************************************************)
flightPrice(lowerOrigin, lowerDestination, month, r) ==
  (* 1 + variation = 0.75 + r/(2*RandDen); the multiplier is in tenths *)
  RoundTimes(basePrice(lowerOrigin, lowerDestination),
             ((3 * RandDen) + (2 * r)) * getSeasonalMultiplier(month),
             40 * RandDen)

mockFlightAPI(origin, destination, month, r, j, k) ==
  IF origin \in NotAString \/ destination \in NotAString
    THEN Throw("TypeError")
  ELSE
    LET lowerOrigin == ToLowerCase(Trim(origin))
        lowerDestination == ToLowerCase(Trim(destination))
        flightDetails ==
          getFlightDetails(lowerOrigin, lowerDestination,
                           isDomestic(lowerOrigin, lowerDestination), j, k)
    IN Return([price |-> flightPrice(lowerOrigin, lowerDestination, month, r),
               hours |-> flightDetails.hours,
               minutes |-> flightDetails.minutes,
               stops |-> flightDetails.stops,
               baggage |-> "20kg included"])

(***************************************************************************)
(* mockHotelAPI.                                                           *)
(***************************************************************************)
hotelTypes ==
  ("budget" :> [name |-> "Budget Inn", breakfast |-> TRUE, basePrice |-> 60])
  @@ ("standard" :>
        [name |-> "Comfort Hotel", breakfast |-> FALSE, basePrice |-> 120])
  @@ ("luxury" :>
        [name |-> "Grand Resort", breakfast |-> FALSE, basePrice |-> 280])

(* In tenths. *)
multipliers ==
  ("Tokyo" :> 14) @@ ("Paris" :> 13) @@ ("London" :> 12) @@ ("Dubai" :> 11)
  @@ ("New York" :> 12) @@ ("Mumbai" :> 6) @@ ("Delhi" :> 5)
  @@ ("Bangkok" :> 7) @@ ("Singapore" :> 11)

(* multipliers[destination] || 1.0; undefined and null become the keys     *)
(* 'undefined' and 'null', which the table lacks.                          *)
getDestinationMultiplier(destination) == Or(Get(multipliers, destination), Num(10))

(* hotelPrice with the variation of the flights, Math.random() * 0.5 -     *)
(* 0.25, in place of its own.                                              *)
hotelPriceFlightVariation(base, destination, r) ==
  LET m == getDestinationMultiplier(destination)
  IN IF m.t = "num"
       THEN Num(Round(base * ((3 * RandDen) + (2 * r)) * m.v, 40 * RandDen))
       ELSE NaN

(* Math.round(hotel.basePrice * (1 + variation) * destinationMultiplier)   *)
(* with 1 + variation = 0.85 + 0.3 * r/RandDen.                            *)
hotelPrice(base, destination, r) ==
  LET m == getDestinationMultiplier(destination)
  IN IF m.t = "num"
       THEN Num(Round(base * ((17 * RandDen) + (6 * r)) * m.v, 200 * RandDen))
       ELSE NaN

(* hotelTypes[roomType] || hotelTypes['standard'].  An inherited property  *)
(* (a function) is truthy and has no amenities, so building the quote      *)
(* raises a TypeError at hotel.amenities.includes.                         *)
mockHotelAPI(destination, roomType, r) ==
  IF roomType = "#nokey" \/ destination = "#nokey" THEN Throw("TypeError")
  ELSE IF roomType \notin DOMAIN hotelTypes /\ roomType \in ObjectProtoKeys
    THEN Throw("TypeError")
  ELSE
    LET hotel == IF roomType \in DOMAIN hotelTypes
                   THEN hotelTypes[roomType] ELSE hotelTypes["standard"]
    IN Return([pricePerNight |-> hotelPrice(hotel.basePrice, destination, r),
               hotelName |-> hotel.name,
               cancellation |-> (roomType # "budget"),
               breakfast |-> hotel.breakfast,
               wifi |-> TRUE])

(***************************************************************************)
(* mockActivityAPI.  interests is a sequence of strings; the arguments     *)
(* null and undefined are the marker sequences below.                      *)
(***************************************************************************)
NullInterests == <<"#null">>

UndefinedInterests == <<"#undefined">>

activities ==
  ("cultural" :>
     <<"Museum Tour", "Historical Walk", "Art Gallery Visit", "Cultural Show">>)
  @@ ("adventure" :>
     <<"Hiking Tour", "Water Sports", "Rock Climbing", "Zip Lining">>)
  @@ ("food" :>
     <<"Food Tour", "Cooking Class", "Wine Tasting", "Street Food Walk">>)
  @@ ("nature" :>
     <<"Nature Walk", "Wildlife Safari", "Botanical Garden", "Beach Day">>)
  @@ ("default" :>
     <<"City Tour", "Sightseeing", "Local Experience", "Photography Walk">>)

Min(a, b) == IF a < b THEN a ELSE b

(* Math.round(25 + Math.random() * 75) *)
activityPrice(r) == Num(Round((25 * RandDen) + (75 * r), RandDen))

mockActivityAPI(duration, travelers, interests, r) ==
  IF interests = NullInterests THEN Throw("TypeError")
  ELSE
    LET activityType == IF Len(interests) > 0 THEN interests[1] ELSE "default"
    IN IF activityType \notin DOMAIN activities
            /\ activityType \in ObjectProtoKeys
         THEN Throw("TypeError")  (* a function has no slice *)
       ELSE
         LET availableActivities ==
               IF activityType \in DOMAIN activities
                 THEN activities[activityType] ELSE activities["default"]
         IN Return([averagePrice |-> activityPrice(r),
                    recommendedActivities |->
                      SubSeq(availableActivities, 1, Min(duration, 4)),
                    totalActivities |-> Min(duration * 2, 10),
                    groupDiscount |-> (travelers > 4)])

(***************************************************************************)
(* getExchangeRates.  Rates are multiplied by 10000.                       *)
(***************************************************************************)
mockRates ==
  ("USD" :> (("EUR" :> 8500) @@ ("GBP" :> 7300) @@ ("INR" :> 831200)
             @@ ("JPY" :> 1495000)))
  @@ ("EUR" :> (("USD" :> 11800) @@ ("GBP" :> 8600) @@ ("INR" :> 978900)
                @@ ("JPY" :> 1761900)))
  @@ ("GBP" :> (("USD" :> 13700) @@ ("EUR" :> 11600) @@ ("INR" :> 1138700)
                @@ ("JPY" :> 2049300)))
  @@ ("INR" :> (("USD" :> 120) @@ ("EUR" :> 100) @@ ("GBP" :> 88)
                @@ ("JPY" :> 18000)))

RateTable(rates) == [t |-> "table", v |-> rates]

(* { 'USD': 1 }, the fallback *)
Fallback == RateTable("USD" :> 10000)

(* The whole body: the default parameter, the lookup with ||, and the      *)
(* catch around it.  Only the conversion of the argument to a property     *)
(* key can raise.                                                          *)
getExchangeRates(baseCurrencyArg) ==
  LET baseCurrency ==
        IF baseCurrencyArg = "#undefined" THEN "USD" ELSE baseCurrencyArg
      key == IF baseCurrency = "#null" THEN "null" ELSE baseCurrency
      found == IF key \in DOMAIN mockRates
                 THEN RateTable(mockRates[key]) ELSE ProtoGet(key)
  IN IF baseCurrency = "#nokey" THEN Return(Fallback)
     ELSE IF found.t = "table" \/ Truthy(found) THEN Return(found)
     ELSE Return(RateTable(mockRates["USD"]))

(***************************************************************************)
(* generateRecommendations: the list after each of the four rule groups.   *)
(* The strings are the source's without their leading emoji.               *)
(***************************************************************************)
budgetAdvice ==
  <<"Consider hostels or budget hotels for accommodation",
    "Use public transportation to save on travel costs",
    "Look for free walking tours and city attractions",
    "Try local street food for authentic and affordable meals">>

luxuryAdvice ==
  <<"Book flights 2-3 months in advance for better deals",
    "Consider package deals for flights + hotels",
    "Look for hotel packages that include breakfast and amenities">>

durationAdvice ==
  <<"Book longer stays for potential accommodation discounts",
    "Consider weekly transport passes for better value",
    "Plan rest days to avoid burnout and extra costs">>

peakAdvice ==
  <<"This is peak season - book early for better prices",
    "Consider shoulder season for 20-30% savings",
    "Expect crowds at popular attractions">>

offPeakAdvice ==
  <<"Great choice! Off-peak season offers better value",
    "Weather might be less predictable, pack accordingly">>

groupAdvice ==
  <<"Look for group discounts on activities and tours",
    "Consider vacation rentals for larger groups">>

(* generateRecommendations with the seasonal rules ahead of the duration   *)
(* rules.                                                                  *)
generateRecommendationsSeasonFirst(budgetType, month, duration, travelers) ==
  LET afterBudget ==
        IF budgetType = "budget" THEN budgetAdvice
        ELSE IF budgetType = "luxury" THEN luxuryAdvice
        ELSE <<>>
      afterSeason ==
        IF month \in peakMonths THEN afterBudget \o peakAdvice
        ELSE afterBudget \o offPeakAdvice
      afterDuration ==
        IF duration > 7 THEN afterSeason \o durationAdvice ELSE afterSeason
  IN IF travelers > 4 THEN afterDuration \o groupAdvice ELSE afterDuration

generateRecommendations(budgetType, month, duration, travelers) ==
  LET afterBudget ==
        IF budgetType = "budget" THEN budgetAdvice
        ELSE IF budgetType = "luxury" THEN luxuryAdvice
        ELSE <<>>
      afterDuration ==
        IF duration > 7 THEN afterBudget \o durationAdvice ELSE afterBudget
      afterSeason ==
        IF month \in peakMonths THEN afterDuration \o peakAdvice
        ELSE afterDuration \o offPeakAdvice
  IN IF travelers > 4 THEN afterSeason \o groupAdvice ELSE afterSeason

(***************************************************************************)
(* Inputs.                                                                 *)
(***************************************************************************)
FlightCities ==
  {"mumbai", " Mumbai ", "delhi", "paris", "london", "new york", "dubai",
   "kolkata", "imphal", "rome", "constructor", "name", "#undefined"}

(* The cities of the calls of getFlightPrices. *)
FacadeCities ==
  {" Mumbai ", "delhi", "paris", "rome", "constructor", "name", "#undefined"}

DepartMonths == Months \cup {InvalidMonth}

HotelDestinations ==
  {"Tokyo", "Paris", "Delhi", "Mumbai", "tokyo", "Rome", "constructor",
   "toString", "#undefined"}

RoomTypes ==
  {"budget", "standard", "luxury", "suite", "constructor", "#undefined",
   "#null"}

InterestLists ==
  {<<>>, <<"food">>, <<"nature", "food">>, <<"surfing">>, <<"constructor">>,
   NullInterests, UndefinedInterests}

Currencies ==
  {"USD", "EUR", "GBP", "INR", "JPY", "XYZ", "constructor", "toString",
   "__proto__", "#undefined", "#null", "#nokey"}

BudgetTypes == {"budget", "standard", "luxury", "backpacker"}

Durations == 0 .. MaxDuration

Travelers == 1 .. MaxTravelers

(***************************************************************************)
(* The state machine: one call of the service at a time (calls share no    *)
(* state).  pc is the position of the call: "idle" before it, "delay" at   *)
(* the await of the setTimeout promise, "resumed" once the timer has       *)
(* fired, "done" once the public method has settled its promise; inner is  *)
(* what the mock returned or raised inside the try block, ret what the     *)
(* public method returned or raised.                                       *)
(***************************************************************************)
NoArgs == [none |-> TRUE]

Init ==
  /\ pc = "idle"
  /\ op = "none"
  /\ args = NoArgs
  /\ timer = 0
  /\ elapsed = 0
  /\ locals = NoArgs
  /\ inner = None
  /\ ret = None

(* Entering a public method whose mock starts with                         *)
(* await new Promise(resolve => setTimeout(resolve, ms)).                  *)
Enter(name, a, ms) ==
  /\ pc = "idle"
  /\ pc' = "delay"
  /\ op' = name
  /\ args' = a
  /\ timer' = ms
  /\ elapsed' = 0
  /\ UNCHANGED <<locals, inner, ret>>

getFlightPrices ==
  \E origin \in FacadeCities, destination \in FacadeCities,
     month \in DepartMonths :
    Enter("getFlightPrices",
          [origin |-> origin, destination |-> destination, month |-> month],
          800)

(* roomType = 'standard' when the argument is undefined *)
getHotelPrices ==
  \E destination \in HotelDestinations, roomType \in RoomTypes :
    Enter("getHotelPrices",
          [destination |-> destination,
           roomType |-> IF roomType = "#undefined" THEN "standard"
                        ELSE roomType],
          600)

(* interests = [] when the argument is undefined *)
getActivityPrices ==
  \E duration \in Durations, travelers \in Travelers,
     interests \in InterestLists :
    Enter("getActivityPrices",
          [duration |-> duration, travelers |-> travelers,
           interests |-> IF interests = UndefinedInterests THEN <<>>
                         ELSE interests],
          400)

(* The mock resumes without the promise of the timer being awaited. *)
TimerNotAwaited ==
  /\ pc = "delay"
  /\ pc' = "resumed"
  /\ UNCHANGED <<op, args, timer, elapsed, locals, inner, ret>>

(* The timer fires and the awaiting mock resumes. *)
TimerFires ==
  /\ pc = "delay"
  /\ pc' = "resumed"
  /\ elapsed' = elapsed + timer
  /\ timer' = 0
  /\ UNCHANGED <<op, args, locals, inner, ret>>

(* The message of the Error the catch block of a public method raises. *)
failureMessage(name) ==
  CASE name = "getFlightPrices" -> "Failed to fetch flight prices"
    [] name = "getHotelPrices" -> "Failed to fetch hotel prices"
    [] name = "getActivityPrices" -> "Failed to fetch activity prices"

(* try { return await mock } catch (error) { throw new Error(message) } *)
settle(name, outcome) ==
  IF outcome.kind = "throw" THEN Throw(failureMessage(name)) ELSE outcome

(* mockFlightAPI from the end of its delay to its return or its error,    *)
(* and the try/catch of getFlightPrices around it.                         *)
mockFlightAPIResumes ==
  /\ pc = "resumed"
  /\ op = "getFlightPrices"
  /\ \E r \in Rand, j \in JitterDraws, k \in Rand :
       /\ inner' = mockFlightAPI(args.origin, args.destination, args.month,
                                 r, j, k)
       /\ locals' =
            IF args.origin \in NotAString \/ args.destination \in NotAString
              THEN NoArgs
            ELSE
              LET lowerOrigin == ToLowerCase(Trim(args.origin))
                  lowerDestination == ToLowerCase(Trim(args.destination))
              IN [lowerOrigin |-> lowerOrigin,
                  lowerDestination |-> lowerDestination,
                  basePrice |-> basePrice(lowerOrigin, lowerDestination),
                  isDomestic |-> isDomestic(lowerOrigin, lowerDestination),
                  r |-> r, j |-> j, k |-> k]
  /\ ret' = settle(op, inner')
  /\ pc' = "done"
  /\ UNCHANGED <<op, args, timer, elapsed>>

mockHotelAPIResumes ==
  /\ pc = "resumed"
  /\ op = "getHotelPrices"
  /\ \E r \in Rand :
       /\ inner' = mockHotelAPI(args.destination, args.roomType, r)
       /\ locals' = [r |-> r]
  /\ ret' = settle(op, inner')
  /\ pc' = "done"
  /\ UNCHANGED <<op, args, timer, elapsed>>

mockActivityAPIResumes ==
  /\ pc = "resumed"
  /\ op = "getActivityPrices"
  /\ \E r \in Rand :
       /\ inner' = mockActivityAPI(args.duration, args.travelers,
                                   args.interests, r)
       /\ locals' = [r |-> r]
  /\ ret' = settle(op, inner')
  /\ pc' = "done"
  /\ UNCHANGED <<op, args, timer, elapsed>>

(* getExchangeRates awaits nothing: it settles in the call itself. *)
GetExchangeRates ==
  /\ pc = "idle"
  /\ \E baseCurrency \in Currencies :
       /\ args' = [baseCurrency |-> baseCurrency]
       /\ ret' = getExchangeRates(baseCurrency)
  /\ op' = "getExchangeRates"
  /\ pc' = "done"
  /\ timer' = 0
  /\ elapsed' = 0
  /\ UNCHANGED <<locals, inner>>

(* A direct call of getFlightDetails(origin, destination, isDomestic). *)
GetFlightDetails ==
  /\ pc = "idle"
  /\ \E origin \in FlightCities, destination \in FlightCities,
        domestic \in BOOLEAN, j \in JitterDraws, k \in Rand :
       /\ args' = [origin |-> origin, destination |-> destination,
                   isDomestic |-> domestic]
       /\ IF origin \in NotAString \/ destination \in NotAString
            THEN /\ ret' = Throw("TypeError")
                 /\ locals' = NoArgs
            ELSE /\ ret' = Return(getFlightDetails(origin, destination,
                                                   domestic, j, k))
                 /\ locals' =
                      [baseDuration |->
                         baseDuration(origin, destination, domestic),
                       duration |->
                         resolvedDuration(origin, destination, domestic, j),
                       j |-> j, k |-> k]
  /\ op' = "getFlightDetails"
  /\ pc' = "done"
  /\ timer' = 0
  /\ elapsed' = 0
  /\ UNCHANGED inner

GenerateRecommendations ==
  /\ pc = "idle"
  /\ \E budgetType \in BudgetTypes, month \in Months, duration \in Durations,
        travelers \in Travelers :
       /\ args' = [budgetType |-> budgetType, month |-> month,
                   duration |-> duration, travelers |-> travelers]
       /\ ret' = Return(generateRecommendations(budgetType, month, duration,
                                                travelers))
  /\ op' = "generateRecommendations"
  /\ pc' = "done"
  /\ timer' = 0
  /\ elapsed' = 0
  /\ UNCHANGED <<locals, inner>>

(* The caller has taken the result; nothing of the call is kept. *)
Finish ==
  /\ pc = "done"
  /\ pc' = "idle"
  /\ op' = "none"
  /\ args' = NoArgs
  /\ timer' = 0
  /\ elapsed' = 0
  /\ locals' = NoArgs
  /\ inner' = None
  /\ ret' = None

Next ==
  \/ getFlightPrices
  \/ getHotelPrices
  \/ getActivityPrices
  \/ TimerFires
  \/ mockFlightAPIResumes
  \/ mockHotelAPIResumes
  \/ mockActivityAPIResumes
  \/ GetExchangeRates
  \/ GetFlightDetails
  \/ GenerateRecommendations
  \/ Finish

Spec == Init /\ [][Next]_vars

(* The flight-detail resolver alone. *)
NextDetails == GetFlightDetails \/ Finish

SpecDetails == Init /\ [][NextDetails]_vars

(* The advice generator alone. *)
NextAdvice == GenerateRecommendations \/ Finish

SpecAdvice == Init /\ [][NextAdvice]_vars

TypeOK == pc \in {"idle", "delay", "resumed", "done"}

(***************************************************************************)
(* Properties.                                                             *)
(***************************************************************************)
QuoteOps == {"getFlightPrices", "getHotelPrices", "getActivityPrices"}

Returned(name) == pc = "done" /\ op = name /\ ret.kind = "return"

(* The price of the quote a public method has returned. *)
QuotePrice ==
  CASE op = "getFlightPrices" -> ret.value.price
    [] op = "getHotelPrices" -> ret.value.pricePerNight
    [] op = "getActivityPrices" -> ret.value.averagePrice

(* C1: every quote that getFlightPrices, getHotelPrices or getActivityPrices
   returns has a price that is a number (an integer) strictly greater
   than 0, whatever the cities, the month, the room type, the destination
   and the random draws are. *)
C1_QuotePricePositive ==
  \A name \in QuoteOps :
    Returned(name) => QuotePrice.t = "num" /\ QuotePrice.v > 0

(* The tiers of the hotel table and the arguments that select them. *)
RoomTiers == {"budget", "standard", "luxury"}

TierBase == ("budget" :> 60) @@ ("standard" :> 120) @@ ("luxury" :> 280)

HotelTierReturned ==
  Returned("getHotelPrices") /\ args.roomType \in RoomTiers

(* C2 as stated: for every room tier, destination and draw, pricePerNight
   lies between round(0.85 * base) and round(1.15 * base) of the tier's base
   rate 60, 120 or 280.  Stated here for the destinations whose multiplier
   is a number, so that a violation does not rest on the NaN price of C1. *)
C2_PriceWithinBaseBand ==
  HotelTierReturned /\ args.destination \notin ObjectProtoKeys =>
    LET base == TierBase[args.roomType]
        price == ret.value.pricePerNight
    IN /\ price.t = "num"
       /\ Round(85 * base, 100) <= price.v
       /\ price.v <= Round(115 * base, 100)

(* The destination multipliers in tenths, 1.0 for every other string. *)
ExpectedMultiplier(destination) ==
  CASE destination = "Tokyo" -> 14
    [] destination = "Paris" -> 13
    [] destination \in {"London", "New York"} -> 12
    [] destination \in {"Dubai", "Singapore"} -> 11
    [] destination = "Bangkok" -> 7
    [] destination = "Mumbai" -> 6
    [] destination = "Delhi" -> 5
    [] OTHER -> 10

(* C2 amended: for every room tier and draw, pricePerNight lies between
   round(0.85 * base * m) and round(1.15 * base * m), where m is the
   destination's multiplier (1.0 for a destination outside the table); for
   a destination that names an inherited Object property the multiplier is
   not a number and the price is NaN. *)
C2_PriceWithinScaledBand ==
  HotelTierReturned =>
    LET base == TierBase[args.roomType]
        price == ret.value.pricePerNight
        m == ExpectedMultiplier(args.destination)
    IN IF args.destination \in ObjectProtoKeys
         THEN price = NaN
         ELSE /\ price.t = "num"
              /\ Round(85 * base * m, 1000) <= price.v
              /\ price.v <= Round(115 * base * m, 1000)

(* A luxury room in Tokyo at the lowest draw: 280 * 0.85 * 1.4 = 333.2. *)
C2_Witness ==
  /\ HotelTierReturned
  /\ args.roomType = "luxury"
  /\ args.destination = "Tokyo"
  /\ ret.value.pricePerNight = Num(333)

(***************************************************************************)
(* The flight-detail resolver.                                             *)
(***************************************************************************)
DetailsReturned == Returned("getFlightDetails")

(* C3: an international flight whose resolved duration (table or default
   value plus jitter) is at least 10 hours has 1 or 2 stops, never 0,
   whatever the draws are. *)
C3_LongHaulHasStops ==
  DetailsReturned /\ ~args.isDomestic /\ locals.duration >= 10 * HourUnits
    => ret.value.stops \in {1, 2}

(* Delhi - New York, 14.5 hours less the largest jitter, with two stops. *)
C3_Witness ==
  /\ DetailsReturned
  /\ ~args.isDomestic
  /\ args.origin = "delhi"
  /\ args.destination = "new york"
  /\ locals.duration = (14 * HourUnits) + (HourUnits \div 4)
  /\ ret.value.stops = 2

(* The number of stops draws k/RandDen, out of RandDen, for which an
   international flight of the given duration has at least one stop. *)
StopLikelihood(duration) ==
  Cardinality({k \in Rand : stopsFor(FALSE, duration, k) >= 1})

(* One duration in each bucket: under 5 hours, 5 to 10 hours, 10 and over. *)
BucketDurations == {2 * HourUnits, 7 * HourUnits, 12 * HourUnits}

(* C8: for international flights the number of draws that give at least
   one stop does not decrease from one duration bucket to the next: the
   count at the resolved duration of a flight is at most the count at any
   duration of a later bucket. *)
C8_StopsMonotoneInDuration ==
  DetailsReturned /\ ~args.isDomestic =>
    \A longer \in BucketDurations :
      locals.duration <= longer =>
        StopLikelihood(locals.duration) <= StopLikelihood(longer)

(* The cities of the route table: its rows and their columns. *)
RouteCities ==
  DOMAIN routes \cup UNION {DOMAIN routes[city] : city \in DOMAIN routes}

(* C9: the route tables are symmetric: for cities A and B the base price
   looked up for A -> B equals the one for B -> A, and the base duration
   resolved for A -> B equals the one for B -> A. *)
C9_RouteTablesSymmetric ==
  /\ (/\ Returned("getFlightPrices")
      /\ locals.lowerOrigin \in RouteCities
      /\ locals.lowerDestination \in RouteCities)
       => locals.basePrice
            = basePrice(locals.lowerDestination, locals.lowerOrigin)
  /\ DetailsReturned
       => locals.baseDuration
            = baseDuration(args.destination, args.origin, args.isDomestic)

(* The base duration as the claim words it, in tenths of an hour: the entry
   under the forward key if there is one, else the entry under the reverse
   key if there is one, else 2.0 (domestic) or 8.0 (international). *)
ExpectedBaseDuration(origin, destination, domestic) ==
  LET table == IF domestic THEN domesticDurations ELSE internationalDurations
      forward == ToLowerCase(origin) \o "-" \o ToLowerCase(destination)
      reverse == ToLowerCase(destination) \o "-" \o ToLowerCase(origin)
  IN CASE forward \in DOMAIN table -> table[forward]
       [] forward \notin DOMAIN table /\ reverse \in DOMAIN table
            -> table[reverse]
       [] OTHER -> IF domestic THEN 20 ELSE 80

Abs(n) == IF n < 0 THEN 0 - n ELSE n

(* C10: the duration resolved before formatting differs by at most 15
   minutes from the base value of the matching table (forward key, else
   reverse key, else the default of the category). *)
C10_DurationWithinQuarterHour ==
  DetailsReturned =>
    4 * Abs(locals.duration
             - TenthsToUnits(ExpectedBaseDuration(args.origin,
                                                  args.destination,
                                                  args.isDomestic)))
      <= HourUnits

(* Mumbai - Delhi from the domestic table at the lowest draw: 2.5 hours
   less exactly 15 minutes. *)
C10_Witness ==
  /\ DetailsReturned
  /\ args.isDomestic
  /\ args.origin = "mumbai"
  /\ args.destination = "delhi"
  /\ locals.j = 0
  /\ 4 * locals.duration = 9 * HourUnits

(***************************************************************************)
(* The exchange rates and the failures of the public methods.              *)
(***************************************************************************)
RateKeys == {"USD", "EUR", "GBP", "INR"}

UsdTable ==
  RateTable(("EUR" :> 8500) @@ ("GBP" :> 7300) @@ ("INR" :> 831200)
            @@ ("JPY" :> 1495000))

(* C4: for every base-currency argument that is not one of the keys USD,
   EUR, GBP, INR (other strings, names such as 'constructor' or 'toString',
   values that are not strings), getExchangeRates returns exactly the USD
   table {EUR, GBP, INR, JPY}; it neither raises nor returns anything
   else. *)
C4_UnknownBaseGivesUsdTable ==
  pc = "done" /\ op = "getExchangeRates" /\ args.baseCurrency \notin RateKeys
    => ret = Return(UsdTable)

(* The four rate tables. *)
RateTables == {RateTable(mockRates[key]) : key \in RateKeys}

(* C5: when the mock of getFlightPrices, getHotelPrices or
   getActivityPrices raises, the public method ends in its own failure
   ('Failed to fetch flight / hotel / activity prices'), returns no quote
   and does not let the original error out; getExchangeRates never ends in
   a failure: it returns a rate table or the fallback {USD: 1}. *)
C5_FailuresAreDomainFailures ==
  /\ pc = "done" /\ op = "getFlightPrices" /\ inner.kind = "throw"
       => ret = [kind |-> "throw", value |-> "Failed to fetch flight prices"]
  /\ pc = "done" /\ op = "getHotelPrices" /\ inner.kind = "throw"
       => ret = [kind |-> "throw", value |-> "Failed to fetch hotel prices"]
  /\ pc = "done" /\ op = "getActivityPrices" /\ inner.kind = "throw"
       => ret = [kind |-> "throw",
                 value |-> "Failed to fetch activity prices"]
  /\ pc = "done" /\ op = "getExchangeRates"
       => /\ ret.kind = "return"
          /\ ret.value \in RateTables \cup {Fallback}

(* The part of C5 about the three quote operations, which holds. *)
C5_QuoteFailuresOnly ==
  \A name \in QuoteOps :
    pc = "done" /\ op = name /\ inner.kind = "throw"
      => ret.kind = "throw" /\ ret.value # inner.value

(***************************************************************************)
(* The delays.                                                             *)
(***************************************************************************)
PublicOps == QuoteOps \cup {"getExchangeRates"}

(* C6 as stated: each of the four public operations completes only after
   its artificial delay, between 400 and 800 ms, has elapsed. *)
C6_EveryOperationDelayed ==
  pc = "done" /\ op \in PublicOps => 400 <= elapsed /\ elapsed <= 800

(* C6 amended: getFlightPrices, getHotelPrices and getActivityPrices
   produce their result (a quote or a failure) only after their delay of
   800, 600 and 400 ms has elapsed, and produce nothing before; the fourth
   operation, getExchangeRates, has no delay and completes at once. *)
C6_QuoteOperationsDelayed ==
  /\ pc = "done" /\ op = "getFlightPrices" => elapsed = 800
  /\ pc = "done" /\ op = "getHotelPrices" => elapsed = 600
  /\ pc = "done" /\ op = "getActivityPrices" => elapsed = 400
  /\ pc = "done" /\ op = "getExchangeRates" => elapsed = 0
  /\ op \in QuoteOps /\ elapsed = 0 => inner = None /\ ret = None

(* A hotel quote returned 600 ms after the call. *)
C6_Witness ==
  Returned("getHotelPrices") /\ elapsed = 600 /\ timer = 0

(***************************************************************************)
(* The advice generator.                                                   *)
(***************************************************************************)
Range(seq) == {seq[i] : i \in 1 .. Len(seq)}

(* The rule group a string belongs to: 1 budget tier, 2 duration, 3 season,
   4 group size. *)
GroupOf(advice) ==
  CASE advice \in Range(budgetAdvice) \cup Range(luxuryAdvice) -> 1
    [] advice \in Range(durationAdvice) -> 2
    [] advice \in Range(peakAdvice) \cup Range(offPeakAdvice) -> 3
    [] advice \in Range(groupAdvice) -> 4

InGroup1(advice) == GroupOf(advice) = 1

InGroup2(advice) == GroupOf(advice) = 2

InGroup3(advice) == GroupOf(advice) = 3

InGroup4(advice) == GroupOf(advice) = 4

AdviceReturned == Returned("generateRecommendations")

(* C7: the list is the budget-tier block, then the duration block (there
   iff duration > 7), then the seasonal block, then the group block (there
   iff travelers > 4): the groups of its strings never decrease along the
   list, each block is there whole or not at all, and whether it is there
   depends on its own input only; with luxury, 10 days, month 6 and 5
   travelers there is a luxury string, then a duration string, then a
   peak-season string, then a group string. *)
C7_BlocksInOrder ==
  AdviceReturned =>
    LET list == ret.value
    IN /\ \A i \in 1 .. Len(list), n \in 1 .. Len(list) :
            i < n => GroupOf(list[i]) <= GroupOf(list[n])
       /\ SelectSeq(list, InGroup1)
            = CASE args.budgetType = "budget" -> budgetAdvice
                [] args.budgetType = "luxury" -> luxuryAdvice
                [] OTHER -> <<>>
       /\ SelectSeq(list, InGroup2)
            = IF args.duration > 7 THEN durationAdvice ELSE <<>>
       /\ SelectSeq(list, InGroup3)
            = IF args.month \in {5, 6, 7, 8, 11} THEN peakAdvice
              ELSE offPeakAdvice
       /\ SelectSeq(list, InGroup4)
            = IF args.travelers > 4 THEN groupAdvice ELSE <<>>

(* Luxury, 10 days, July, 5 travelers: all four blocks, 11 strings, the
   fourth a duration string, the seventh a peak string, the last a group
   string. *)
C7_Witness ==
  /\ AdviceReturned
  /\ args.budgetType = "luxury"
  /\ args.duration = 10
  /\ args.month = 6
  /\ args.travelers = 5
  /\ Len(ret.value) = 11
  /\ ret.value[1] = luxuryAdvice[1]
  /\ ret.value[4] = durationAdvice[1]
  /\ ret.value[7] = peakAdvice[1]
  /\ ret.value[11] = groupAdvice[2]

(***************************************************************************)
(* The duration string.                                                    *)
(***************************************************************************)
(* C11: the string `${hours}h ${minutes}m` is a well-formed clock value:
   for every route, flag and jitter, hours is a non-negative integer,
   minutes is an integer from 0 to 59 (never 60), and hours and minutes
   together are the resolved duration rounded to the nearest minute. *)
C11_DurationStringWellFormed ==
  DetailsReturned =>
    /\ ret.value.hours >= 0
    /\ ret.value.minutes >= 0
    /\ ret.value.minutes <= 59
    /\ (ret.value.hours * 60) + ret.value.minutes
         = Round(locals.duration * 60, HourUnits)

====
